---- MODULE Spec2Model ----
(***************************************************************************)
(* MiddleScrollController (vs/editor/contrib/middleScroll/browser/         *)
(* middleScroll.ts): the middle-click drag-to-scroll contribution of the   *)
(* editor.  The controller's fields, the window it registers listeners     *)
(* and animation frames on, and the editor's scroll offsets are the state; *)
(* every handler of the class is an operator on that state, and every      *)
(* event the host can deliver is an action that runs the whole handler.    *)
(***************************************************************************)
EXTENDS Integers, Naturals, Sequences, FiniteSets, TLC

(* ------------------------------ bounds --------------------------------- *)

\* Pointer coordinates range over 0 and the first values beyond the
\* threshold, MaxOverY of them vertically and MaxOverX horizontally: the
\* vertical ones are {0, 6, 7}, so the vertical displacements are 0, +-1
\* (inside the threshold), +-6 (the first value outside) and +-7; the
\* horizontal ones are {0, 6}.
MaxOverY == 2

MaxOverX == 1

\* requestAnimationFrame hands out the handles 1 .. MaxFrames; no further
\* frame is requested once they are used up.
MaxFrames == 3

\* The editor's scroll offsets when the controller is constructed.
ScrollStart == 10

\* The offset another actor scrolls the editor to.
ExternalOffset == 0

(* ------------------------- program constants --------------------------- *)

threshold == 5

speed == 2

(* ------------------------------ values --------------------------------- *)

\* A nullable field is the empty tuple (null) or a one-element tuple.
Null == <<>>

Some(v) == <<v>>

Val(o) == o[1]

PosX == {0} \cup ((threshold + 1) .. (threshold + MaxOverX))

PosY == {0} \cup ((threshold + 1) .. (threshold + MaxOverY))

\* IMouseEvent as windowMouseDown and startScroll read it. The position of
\* an event of another button is never read: one such event stands for all.
MouseEvents ==
    [middleButton : {TRUE}, posx : PosX, posy : PosY]
        \cup [middleButton : {FALSE}, posx : {0}, posy : {0}]

\* MouseEvent as setCurrent reads it.
MoveEvents == [pageX : PosX, pageY : PosY]

\* Truncation towards minus infinity (Math.floor) in place of Math.round.
MathRound_floor(num, den) == num \div den

\* Math.round: the nearest integer, a half rounded towards +infinity
\* (Math.round(0.5) = 1, Math.round(-0.5) = -0, Math.round(-1.5) = -1).
\* The argument is the quotient num / den with den > 0.
MathRound(num, den) == (2 * num + den) \div (2 * den)

(* ------------------------------ state ---------------------------------- *)

VARIABLES
    moving,             \* this.moving
    scrolling,          \* this.scrolling
    currentX,           \* this.currentX
    currentY,           \* this.currentY
    x,                  \* this.x
    y,                  \* this.y
    animationFrameId,   \* this.animationFrameId
    dot,                \* this.dot: Null or [hidden, left, top]
    disposed,           \* the controller's dispose() has run
    listener,           \* window: setCurrent is a registered mousemove listener
    frames,             \* window: handles of the pending animation frame callbacks
    nextFrameId,        \* window: the handle the next requestAnimationFrame returns
    stale,              \* window: a cancelled callback was already queued to run
    bodyClass,          \* body.classList holds scroll-editor-on-middle-click-editor
    bodyDirection,      \* body's data-scroll-direction attribute, Null when absent
    scrollTop,          \* editor.getScrollTop()
    scrollLeft,         \* editor.getScrollLeft()
    ev,                 \* the operation delivered last: [op, middleButton, repeated]
    cancelCalls,        \* handles passed to cancelAnimationFrame by that operation
    propagationStopped, \* that operation called e.stopPropagation()
    middleDownSince,    \* a middle-button down came after the last stopping up / disposal
    startedSince        \* a session start came after the last stop

vars == <<moving, scrolling, currentX, currentY, x, y, animationFrameId, dot,
          disposed, listener, frames, nextFrameId, stale, bodyClass,
          bodyDirection, scrollTop, scrollLeft, ev, cancelCalls,
          propagationStopped, middleDownSince, startedSince>>

\* The program state as one value, so that a handler that calls another
\* handler is the composition of the two.
Cur ==
    [moving |-> moving, scrolling |-> scrolling,
     currentX |-> currentX, currentY |-> currentY, x |-> x, y |-> y,
     animationFrameId |-> animationFrameId, dot |-> dot, disposed |-> disposed,
     listener |-> listener, frames |-> frames, nextFrameId |-> nextFrameId,
     stale |-> stale,
     bodyClass |-> bodyClass, bodyDirection |-> bodyDirection,
     scrollTop |-> scrollTop, scrollLeft |-> scrollLeft,
     cancelCalls |-> {}, propagationStopped |-> FALSE]

Commit(s) ==
    /\ moving' = s.moving
    /\ scrolling' = s.scrolling
    /\ currentX' = s.currentX
    /\ currentY' = s.currentY
    /\ x' = s.x
    /\ y' = s.y
    /\ animationFrameId' = s.animationFrameId
    /\ dot' = s.dot
    /\ disposed' = s.disposed
    /\ listener' = s.listener
    /\ frames' = s.frames
    /\ nextFrameId' = s.nextFrameId
    /\ stale' = s.stale
    /\ bodyClass' = s.bodyClass
    /\ bodyDirection' = s.bodyDirection
    /\ scrollTop' = s.scrollTop
    /\ scrollLeft' = s.scrollLeft
    /\ cancelCalls' = s.cancelCalls
    /\ propagationStopped' = s.propagationStopped

(* ---------------------------- the window ------------------------------- *)

\* window.requestAnimationFrame(this.scrollPane): a fresh handle, pending.
requestAnimationFrame(s) ==
    [s EXCEPT !.frames = @ \cup {s.nextFrameId},
              !.nextFrameId = @ + 1,
              !.animationFrameId = Some(s.nextFrameId)]

\* window.cancelAnimationFrame(h): the callback is no longer pending.
cancelAnimationFrame(s, h) ==
    [s EXCEPT !.frames = @ \ {h},
              !.stale = (h \in s.frames) \/ @,
              !.cancelCalls = @ \cup {h}]

(* --------------------------- the handlers ------------------------------ *)

\* Move with the threshold test left out of the two comparisons.
Move_noThreshold(diff) ==
    IF diff > 0 THEN MathRound(diff - threshold, speed)
    ELSE IF diff < 0 THEN MathRound(diff + threshold, speed)
    ELSE 0

\* The scroll step of one axis for the displacement diff.
Move(diff) ==
    IF diff > threshold THEN MathRound(diff - threshold, speed)
    ELSE IF diff < -threshold THEN MathRound(diff + threshold, speed)
    ELSE 0

Direction(moveTop, moveLeft) ==
    (IF moveTop < 0 THEN "n" ELSE IF moveTop > 0 THEN "s" ELSE "")
    \o (IF moveLeft < 0 THEN "w" ELSE IF moveLeft > 0 THEN "e" ELSE "")

\* scrollPane requesting the next frame only when it has scrolled.
scrollPane_stopsWhenStill(s) ==
    IF s.currentX = Null \/ s.currentY = Null \/ s.x = Null \/ s.y = Null
    THEN s
    ELSE
        LET top == s.scrollTop
            left == s.scrollLeft
            moveTop == Move(Val(s.currentY) - Val(s.y))
            moveLeft == Move(Val(s.currentX) - Val(s.x))
            direction == Direction(moveTop, moveLeft)
            s1 == [s EXCEPT !.moving = IF direction # "" THEN TRUE ELSE @,
                            !.bodyDirection = Some(direction),
                            !.scrollTop = top + moveTop,
                            !.scrollLeft = left + moveLeft]
        IN  IF direction # "" THEN requestAnimationFrame(s1) ELSE s1

\* scrollPane reading getScrollLeft() for top as well.
scrollPane_readLeftTwice(s) ==
    IF s.currentX = Null \/ s.currentY = Null \/ s.x = Null \/ s.y = Null
    THEN s
    ELSE
        LET top == s.scrollLeft
            left == s.scrollLeft
            moveTop == Move(Val(s.currentY) - Val(s.y))
            moveLeft == Move(Val(s.currentX) - Val(s.x))
            direction == Direction(moveTop, moveLeft)
        IN  requestAnimationFrame(
                [s EXCEPT !.moving = IF direction # "" THEN TRUE ELSE @,
                          !.bodyDirection = Some(direction),
                          !.scrollTop = top + moveTop,
                          !.scrollLeft = left + moveLeft])

\* scrollPane with moving following the direction of the tick: set when the
\* direction is not empty, cleared when it is.
scrollPane_movingFollowsDirection(s) ==
    IF s.currentX = Null \/ s.currentY = Null \/ s.x = Null \/ s.y = Null
    THEN s
    ELSE
        LET top == s.scrollTop
            left == s.scrollLeft
            moveTop == Move(Val(s.currentY) - Val(s.y))
            moveLeft == Move(Val(s.currentX) - Val(s.x))
            direction == Direction(moveTop, moveLeft)
        IN  requestAnimationFrame(
                [s EXCEPT !.moving = (direction # ""),
                          !.bodyDirection = Some(direction),
                          !.scrollTop = top + moveTop,
                          !.scrollLeft = left + moveLeft])

scrollPane(s) ==
    IF s.currentX = Null \/ s.currentY = Null \/ s.x = Null \/ s.y = Null
    THEN s
    ELSE
        LET top == s.scrollTop
            left == s.scrollLeft
            moveTop == Move(Val(s.currentY) - Val(s.y))
            moveLeft == Move(Val(s.currentX) - Val(s.x))
            direction == Direction(moveTop, moveLeft)
        IN  requestAnimationFrame(
                [s EXCEPT !.moving = IF direction # "" THEN TRUE ELSE @,
                          !.bodyDirection = Some(direction),
                          !.scrollTop = top + moveTop,
                          !.scrollLeft = left + moveLeft])

\* stopScroll without the removal of the mousemove listener.
stopScroll_keepListener(s) ==
    LET s1 == [s EXCEPT !.scrolling = FALSE,
                        !.moving = FALSE]
        s2 == IF s1.animationFrameId # Null
              THEN [cancelAnimationFrame(s1, Val(s1.animationFrameId))
                        EXCEPT !.animationFrameId = Null]
              ELSE s1
        s3 == IF s2.dot # Null
              THEN [s2 EXCEPT !.dot = Some([Val(@) EXCEPT !.hidden = TRUE])]
              ELSE s2
    IN  [s3 EXCEPT !.bodyDirection = Null, !.bodyClass = FALSE]

\* stopScroll without the call of cancelAnimationFrame.
stopScroll_noCancel(s) ==
    LET s1 == [s EXCEPT !.scrolling = FALSE,
                        !.moving = FALSE,
                        !.listener = FALSE,
                        !.animationFrameId = Null]
        s3 == IF s1.dot # Null
              THEN [s1 EXCEPT !.dot = Some([Val(@) EXCEPT !.hidden = TRUE])]
              ELSE s1
    IN  [s3 EXCEPT !.bodyDirection = Null, !.bodyClass = FALSE]

\* stopScroll that cancels the frame and keeps its handle in animationFrameId.
stopScroll_keepId(s) ==
    LET s1 == [s EXCEPT !.scrolling = FALSE,
                        !.moving = FALSE,
                        !.listener = FALSE]
        s2 == IF s1.animationFrameId # Null
              THEN cancelAnimationFrame(s1, Val(s1.animationFrameId))
              ELSE s1
        s3 == IF s2.dot # Null
              THEN [s2 EXCEPT !.dot = Some([Val(@) EXCEPT !.hidden = TRUE])]
              ELSE s2
    IN  [s3 EXCEPT !.bodyDirection = Null, !.bodyClass = FALSE]

\* stopScroll without the removal of the body's class and direction.
stopScroll_keepBody(s) ==
    LET s1 == [s EXCEPT !.scrolling = FALSE,
                        !.moving = FALSE,
                        !.listener = FALSE]
        s2 == IF s1.animationFrameId # Null
              THEN [cancelAnimationFrame(s1, Val(s1.animationFrameId))
                        EXCEPT !.animationFrameId = Null]
              ELSE s1
    IN  IF s2.dot # Null
        THEN [s2 EXCEPT !.dot = Some([Val(@) EXCEPT !.hidden = TRUE])]
        ELSE s2

stopScroll(s) ==
    LET s1 == [s EXCEPT !.scrolling = FALSE,
                        !.moving = FALSE,
                        !.listener = FALSE]
        s2 == IF s1.animationFrameId # Null
              THEN [cancelAnimationFrame(s1, Val(s1.animationFrameId))
                        EXCEPT !.animationFrameId = Null]
              ELSE s1
        s3 == IF s2.dot # Null
              THEN [s2 EXCEPT !.dot = Some([Val(@) EXCEPT !.hidden = TRUE])]
              ELSE s2
    IN  [s3 EXCEPT !.bodyDirection = Null, !.bodyClass = FALSE]

\* startScroll without the stopScroll of a session that is on.
startScroll_noStop(s, e) ==
    LET s1 == [s EXCEPT !.scrolling = TRUE,
                        !.moving = FALSE,
                        !.bodyClass = TRUE]
        s2 == IF s1.dot # Null
              THEN [s1 EXCEPT !.dot = Some([hidden |-> FALSE,
                                            left |-> Some(e.posx),
                                            top |-> Some(e.posy)])]
              ELSE s1
    IN  scrollPane([s2 EXCEPT !.x = Some(e.posx),
                              !.y = Some(e.posy),
                              !.currentX = Some(e.posx),
                              !.currentY = Some(e.posy),
                              !.listener = TRUE])

\* startScroll with the assignments to currentX and currentY left out.
startScroll_keepCurrent(s, e) ==
    LET s0 == IF s.scrolling THEN stopScroll(s) ELSE s
        s1 == [s0 EXCEPT !.scrolling = TRUE,
                         !.moving = FALSE,
                         !.bodyClass = TRUE]
        s2 == IF s1.dot # Null
              THEN [s1 EXCEPT !.dot = Some([hidden |-> FALSE,
                                            left |-> Some(e.posx),
                                            top |-> Some(e.posy)])]
              ELSE s1
    IN  scrollPane([s2 EXCEPT !.x = Some(e.posx),
                              !.y = Some(e.posy),
                              !.listener = TRUE])

startScroll(s, e) ==
    LET s0 == IF s.scrolling THEN stopScroll(s) ELSE s
        s1 == [s0 EXCEPT !.scrolling = TRUE,
                         !.moving = FALSE,
                         !.bodyClass = TRUE]
        s2 == IF s1.dot # Null
              THEN [s1 EXCEPT !.dot = Some([hidden |-> FALSE,
                                            left |-> Some(e.posx),
                                            top |-> Some(e.posy)])]
              ELSE s1
    IN  scrollPane([s2 EXCEPT !.x = Some(e.posx),
                              !.y = Some(e.posy),
                              !.currentX = Some(e.posx),
                              !.currentY = Some(e.posy),
                              !.listener = TRUE])

\* setCurrent that also moves the anchor to the event's coordinates.
setCurrent_moveAnchor(s, e) ==
    [s EXCEPT !.currentX = Some(e.pageX), !.currentY = Some(e.pageY),
              !.x = Some(e.pageX), !.y = Some(e.pageY)]

\* setCurrent followed at once by a scroll step.
setCurrent_andScroll(s, e) ==
    scrollPane([s EXCEPT !.currentX = Some(e.pageX), !.currentY = Some(e.pageY)])

setCurrent(s, e) ==
    [s EXCEPT !.currentX = Some(e.pageX), !.currentY = Some(e.pageY)]

createDot(s) ==
    [s EXCEPT !.dot = Some([hidden |-> TRUE, left |-> Null, top |-> Null])]

stopPropagation(s) == [s EXCEPT !.propagationStopped = TRUE]

\* windowMouseDown without the test of the button.
windowMouseDown_anyButton(s, e) ==
    IF s.scrolling
    THEN stopScroll(IF e.middleButton THEN stopPropagation(s) ELSE s)
    ELSE
        LET s1 == IF s.dot = Null THEN createDot(s) ELSE s
        IN  startScroll(stopPropagation(s1), e)

\* windowMouseDown where a middle-button down while scrolling goes on to
\* start a new session.
windowMouseDown_restart(s, e) ==
    IF s.scrolling
    THEN IF e.middleButton
         THEN startScroll(stopScroll(stopPropagation(s)), e)
         ELSE stopScroll(s)
    ELSE
        LET s1 == IF s.dot = Null THEN createDot(s) ELSE s
        IN  IF e.middleButton THEN startScroll(stopPropagation(s1), e) ELSE s1

windowMouseDown(s, e) ==
    IF s.scrolling
    THEN stopScroll(IF e.middleButton THEN stopPropagation(s) ELSE s)
    ELSE
        LET s1 == IF s.dot = Null THEN createDot(s) ELSE s
        IN  IF e.middleButton THEN startScroll(stopPropagation(s1), e) ELSE s1

\* windowMouseUp without the test of moving.
windowMouseUp_always(s) == stopScroll(s)

\* windowMouseUp with the test of moving negated.
windowMouseUp_negated(s) ==
    IF ~s.moving THEN stopScroll(s) ELSE s

windowMouseUp(s) ==
    IF s.moving THEN stopScroll(s) ELSE s

\* dispose() with the constructor's stopScroll disposable missing.
dispose_noStop(s) ==
    [s EXCEPT !.dot = Null, !.disposed = TRUE]

\* dispose(): the disposables run in the order they were added, the
\* constructor's stopScroll first, then createDot's removal of the dot;
\* super.dispose() then drops the editor's mouse listeners.
dispose(s) ==
    [stopScroll(s) EXCEPT !.dot = Null, !.disposed = TRUE]

(* ------------------------------ history -------------------------------- *)

\* The record of the operation a step delivers; repeated says that the
\* operation delivered before it was the same one.
Delivered(op, middleButton) ==
    ev' = [op |-> op, middleButton |-> middleButton, repeated |-> (ev.op = op)]

\* No handle beyond MaxFrames is handed out.
WithinFrames(s) == s.nextFrameId <= MaxFrames + 1

(* ------------------------------ actions -------------------------------- *)

Init ==
    /\ moving = FALSE
    /\ scrolling = FALSE
    /\ currentX = Null
    /\ currentY = Null
    /\ x = Null
    /\ y = Null
    /\ animationFrameId = Null
    /\ dot = Null
    /\ disposed = FALSE
    /\ listener = FALSE
    /\ frames = {}
    /\ nextFrameId = 1
    /\ stale = FALSE
    /\ bodyClass = FALSE
    /\ bodyDirection = Null
    /\ scrollTop = ScrollStart
    /\ scrollLeft = ScrollStart
    /\ ev = [op |-> "constructor", middleButton |-> FALSE, repeated |-> FALSE]
    /\ cancelCalls = {}
    /\ propagationStopped = FALSE
    /\ middleDownSince = FALSE
    /\ startedSince = FALSE

\* editor.onMouseDown: windowMouseDown(e.event).
MouseDown ==
    \E e \in MouseEvents :
        LET s == windowMouseDown(Cur, e) IN
        /\ ~disposed
        /\ WithinFrames(s)
        /\ Commit(s)
        /\ Delivered("windowMouseDown", e.middleButton)
        /\ middleDownSince' = IF e.middleButton THEN TRUE ELSE middleDownSince
        /\ startedSince' = IF scrolling THEN FALSE
                           ELSE IF e.middleButton THEN TRUE ELSE startedSince

\* editor.onMouseUp: windowMouseUp().
MouseUp ==
    /\ ~disposed
    /\ Commit(windowMouseUp(Cur))
    /\ Delivered("windowMouseUp", FALSE)
    /\ middleDownSince' = IF moving THEN FALSE ELSE middleDownSince
    /\ startedSince' = IF moving THEN FALSE ELSE startedSince

\* The window's mousemove listener, while it is registered: setCurrent(e).
MouseMove ==
    \E e \in MoveEvents :
        /\ listener
        /\ Commit(setCurrent(Cur, e))
        /\ Delivered("setCurrent", FALSE)
        /\ UNCHANGED <<middleDownSince, startedSince>>

\* The window runs a pending animation frame callback: scrollPane().
AnimationFrame ==
    \E h \in frames :
        LET s == scrollPane([Cur EXCEPT !.frames = @ \ {h}]) IN
        /\ WithinFrames(s)
        /\ Commit(s)
        /\ Delivered("scrollPane", FALSE)
        /\ UNCHANGED <<middleDownSince, startedSince>>

\* The editor disposes its contribution: dispose().
Dispose ==
    /\ ~disposed
    /\ Commit(dispose(Cur))
    /\ Delivered("dispose", FALSE)
    /\ middleDownSince' = FALSE
    /\ startedSince' = FALSE

Next ==
    \/ MouseDown
    \/ MouseUp
    \/ MouseMove
    \/ AnimationFrame
    \/ Dispose

Spec == Init /\ [][Next]_vars

\* A callback is pending and the window has a handle left for the request
\* the callback makes: the enabling condition of AnimationFrame.
FramePending == frames # {} /\ nextFrameId <= MaxFrames

\* The window runs every pending animation frame callback at its next
\* repaint: a callback that stays pending is run. This is weak fairness of
\* AnimationFrame, WF_vars(AnimationFrame), with the enabling condition
\* written out as the state predicate FramePending.
SpecFair == Spec /\ ([]<>(~FramePending) \/ []<><<AnimationFrame>>_vars)

(* ----------------- direct calls of the public methods ------------------ *)

\* A caller holding the controller (MiddleScrollController.get(editor))
\* calls stopScroll().
CallStopScroll ==
    /\ Commit(stopScroll(Cur))
    /\ Delivered("stopScroll", FALSE)
    /\ middleDownSince' = FALSE
    /\ startedSince' = FALSE

NextStop ==
    \/ Next
    \/ CallStopScroll

SpecStop == Init /\ [][NextStop]_vars

\* Such a caller calls startScroll(e) while a session is on (the events the
\* constructor wires reach startScroll only while none is).
CallStartScroll ==
    \E e \in MouseEvents :
        LET s == startScroll(Cur, e) IN
        /\ ~disposed
        /\ scrolling
        /\ e.middleButton
        /\ WithinFrames(s)
        /\ Commit(s)
        /\ Delivered("startScroll", TRUE)
        /\ startedSince' = TRUE
        /\ UNCHANGED middleDownSince

NextStart ==
    \/ Next
    \/ CallStartScroll

SpecStart == Init /\ [][NextStart]_vars

(* ------------------ the editor is scrolled by another actor ------------ *)

\* Something other than the controller (a command, a reveal) sets the
\* editor's scroll position.
ExternalScroll ==
    /\ ~disposed
    /\ scrollTop' = ExternalOffset
    /\ scrollLeft' = ExternalOffset
    /\ Delivered("externalScroll", FALSE)
    /\ cancelCalls' = {}
    /\ propagationStopped' = FALSE
    /\ UNCHANGED <<moving, scrolling, currentX, currentY, x, y,
                   animationFrameId, dot, disposed, listener, frames,
                   nextFrameId, stale, bodyClass, bodyDirection,
                   middleDownSince, startedSince>>

NextExternal ==
    \/ Next
    \/ ExternalScroll

SpecExternal == Init /\ [][NextExternal]_vars

(* ------------- a frame callback that runs although cancelled ------------ *)

\* The callback of a request that cancelAnimationFrame was given, already
\* queued for the frame being rendered, is invoked all the same: scrollPane().
StrayFrame ==
    LET s == scrollPane([Cur EXCEPT !.stale = FALSE]) IN
    /\ stale
    /\ WithinFrames(s)
    /\ Commit(s)
    /\ Delivered("strayScrollPane", FALSE)
    /\ UNCHANGED <<middleDownSince, startedSince>>

NextStray ==
    \/ Next
    \/ StrayFrame

SpecStray == Init /\ [][NextStray]_vars

(* ------------------------------ claims --------------------------------- *)

\* C1, as stated: the controller is Scrolling exactly when a middle-button
\* pointer-down has occurred more recently than any stop-triggering
\* pointer-up or disposal.
C1_ScrollingIffMiddleDownSince == scrolling <=> middleDownSince

\* C1, amended: the controller is Scrolling exactly when a middle-button
\* pointer-down received while Idle has occurred more recently than any
\* stop-triggering event: a pointer-up with moving set, a pointer-down
\* received while Scrolling, or disposal.
C1_ScrollingIffStartedSince == scrolling <=> startedSince

\* A second middle-button down has just ended the session: a middle-button
\* down is the latest event, and the controller is Idle.
C1_Witness ==
    /\ ev.op = "windowMouseDown"
    /\ ev.middleButton
    /\ middleDownSince
    /\ ~scrolling
    /\ cancelCalls # {}

\* C2: a pointer-up ends the session if and only if moving is set at that
\* moment; with moving unset the controller stays as it is, Scrolling with
\* its frame pending and its move listener registered, however many
\* pointer-ups arrive.
C2_UpStopsIffMoving ==
    [][ev'.op = "windowMouseUp" =>
        IF moving
        THEN ~scrolling' /\ frames' = {} /\ ~listener'
        ELSE /\ scrolling' = scrolling
             /\ frames' = frames
             /\ animationFrameId' = animationFrameId
             /\ listener' = listener]_vars

\* Two pointer-ups in a row have arrived in a session without movement, and
\* the session is still on.
C2_Witness ==
    /\ ev.op = "windowMouseUp"
    /\ ev.repeated
    /\ scrolling
    /\ ~moving
    /\ frames # {}
    /\ listener

\* C3: a pointer-down received while Scrolling, whatever its button, leaves
\* the controller Idle with no frame pending, no listener and no new frame
\* requested; propagation is stopped exactly when the button is the middle one.
C3_DownWhileScrollingStops ==
    [][(ev'.op = "windowMouseDown" /\ scrolling) =>
        /\ ~scrolling'
        /\ frames' = {}
        /\ animationFrameId' = Null
        /\ ~listener'
        /\ nextFrameId' = nextFrameId
        /\ (propagationStopped' <=> ev'.middleButton)]_vars

\* A down of another button has just stopped a session, and was left to
\* propagate.
C3_Witness ==
    /\ ev.op = "windowMouseDown"
    /\ ~ev.middleButton
    /\ ~propagationStopped
    /\ cancelCalls # {}
    /\ ~scrolling
    /\ frames = {}

\* The step is the delivery of the pointer-down e.
DeliversDown(e) ==
    /\ ~disposed
    /\ ev'.op = "windowMouseDown"
    /\ ev'.middleButton = e.middleButton
    /\ Commit(windowMouseDown(Cur, e))

\* C4: a middle-button pointer-down received while Idle enters Scrolling
\* with the anchor and the current position at the event's position and
\* moving unset, registers the move listener, leaves exactly one frame
\* callback pending, and leaves the scroll offsets as they were.
C4_MiddleDownStarts ==
    [][\A e \in MouseEvents :
        (e.middleButton /\ ~scrolling /\ DeliversDown(e)) =>
            /\ scrolling'
            /\ x' = Some(e.posx)
            /\ y' = Some(e.posy)
            /\ currentX' = Some(e.posx)
            /\ currentY' = Some(e.posy)
            /\ ~moving'
            /\ listener'
            /\ Cardinality(frames') = 1
            /\ animationFrameId' # Null
            /\ frames' = {Val(animationFrameId')}
            /\ propagationStopped'
            /\ scrollTop' = scrollTop
            /\ scrollLeft' = scrollLeft]_vars

\* A middle-button down has just started a session away from the origin and
\* from where the previous session had left the pointer.
C4_Witness ==
    /\ ev.op = "windowMouseDown"
    /\ ev.middleButton
    /\ scrolling
    /\ x = Some(threshold + 1)
    /\ currentX = x
    /\ currentY = y
    /\ Cardinality(frames) = 1
    /\ nextFrameId > 2

\* The step runs scrollPane as a frame callback, pending or stray.
FrameStep == ev'.op \in {"scrollPane", "strayScrollPane"}

\* C5, as stated: a stop of a running session cancels its pending frame, and
\* a frame callback that runs while the controller is not Scrolling, a stray
\* one included, neither changes the scroll offsets nor requests a frame.
C5_NoScrollStepUnlessScrolling ==
    [][/\ (scrolling /\ ~scrolling') =>
            /\ animationFrameId # Null
            /\ cancelCalls' = {Val(animationFrameId)}
       /\ (FrameStep /\ ~scrolling) =>
            /\ scrollTop' = scrollTop
            /\ scrollLeft' = scrollLeft
            /\ nextFrameId' = nextFrameId
            /\ frames' = {}]_vars

\* The displacement of the pointer from the anchor, once both are set.
PositionsSet == currentX # Null /\ currentY # Null /\ x # Null /\ y # Null

diffTop == Val(currentY) - Val(y)

diffLeft == Val(currentX) - Val(x)

\* C6, as stated: after a frame tick with the pointer more than the
\* threshold above the anchor, the published direction includes n; with the
\* pointer more than the threshold to its left, it includes w.
C6_NegativeDisplacementPublishesNW ==
    (ev.op = "scrollPane" /\ PositionsSet) =>
        /\ diffTop < -threshold =>
                bodyDirection \in {Some("n"), Some("nw"), Some("ne")}
        /\ diffLeft < -threshold =>
                bodyDirection \in {Some("w"), Some("nw"), Some("sw")}

\* m is the quotient num / den rounded to the nearest integer, a half
\* rounded up.
IsRoundedHalfUp(m, num, den) ==
    /\ 2 * den * m - den <= 2 * num
    /\ 2 * num < 2 * den * m + den

\* C7: a frame tick with the pointer more than the threshold below the
\* anchor raises scrollTop by round((diffTop - threshold) / speed), a half
\* rounded up, which is at least 1, and publishes a direction that includes
\* s; the same holds of diffLeft, scrollLeft and e.
C7_PositiveDisplacementScrolls ==
    [][(ev'.op = "scrollPane" /\ PositionsSet) =>
        /\ diffTop > threshold =>
            /\ IsRoundedHalfUp(scrollTop' - scrollTop, diffTop - threshold, speed)
            /\ scrollTop' - scrollTop >= 1
            /\ bodyDirection' \in {Some("s"), Some("sw"), Some("se")}
        /\ diffLeft > threshold =>
            /\ IsRoundedHalfUp(scrollLeft' - scrollLeft, diffLeft - threshold, speed)
            /\ scrollLeft' - scrollLeft >= 1
            /\ bodyDirection' \in {Some("e"), Some("ne"), Some("se")}]_vars

\* A frame tick has just run with the pointer one past the threshold on
\* both axes, and moved the offsets by one each.
C7_Witness ==
    /\ ev.op = "scrollPane"
    /\ PositionsSet
    /\ diffTop = threshold + 1
    /\ diffLeft = threshold + 1
    /\ scrollTop = ScrollStart + 1
    /\ scrollLeft = ScrollStart + 1
    /\ bodyDirection = Some("se")

\* C8: a frame tick with the pointer within the threshold of the anchor on
\* both axes computes no movement, publishes the empty direction, leaves
\* the scroll offsets as they were and does not set moving.
C8_DeadzoneTickScrollsNothing ==
    [][(ev'.op = "scrollPane" /\ PositionsSet
            /\ diffTop <= threshold /\ -threshold <= diffTop
            /\ diffLeft <= threshold /\ -threshold <= diffLeft) =>
        /\ Move(diffTop) = 0
        /\ Move(diffLeft) = 0
        /\ bodyDirection' = Some("")
        /\ scrollTop' = scrollTop
        /\ scrollLeft' = scrollLeft
        /\ moving' = moving]_vars

\* A frame tick has just run with the pointer off the anchor and within the
\* threshold, in a session that has not moved.
C8_Witness ==
    /\ ev.op = "scrollPane"
    /\ PositionsSet
    /\ diffTop # 0
    /\ diffTop <= threshold /\ -threshold <= diffTop
    /\ diffLeft = 0
    /\ bodyDirection = Some("")
    /\ ~moving
    /\ scrolling

\* C9: the controller is scrolling exactly when a frame callback is pending
\* and the move listener is registered; when it is not scrolling, it holds no
\* frame handle, no frame is pending and no move listener is registered.
C9_ScrollingIffFrameAndListener ==
    /\ scrolling <=> (frames # {} /\ listener)
    /\ scrolling => (animationFrameId # Null /\ frames = {Val(animationFrameId)})
    /\ ~scrolling => (animationFrameId = Null /\ frames = {} /\ ~listener)

\* A session that was stopped after a frame tick: the controller is Idle
\* and has cancelled a frame.
C9_Witness ==
    /\ ~scrolling
    /\ stale
    /\ nextFrameId > 2
    /\ ~disposed
    /\ frames = {}

\* The state stopScroll leaves behind.
Stopped ==
    /\ ~scrolling
    /\ ~moving
    /\ animationFrameId = Null
    /\ frames = {}
    /\ ~listener
    /\ (dot # Null => Val(dot).hidden)
    /\ bodyDirection = Null
    /\ ~bodyClass

\* C10: stopScroll leaves the controller stopped from any state, and a
\* second stopScroll right after the first changes nothing and does not
\* call cancelAnimationFrame again.
C10_StopIdempotent ==
    [][ev'.op = "stopScroll" =>
        /\ Stopped'
        /\ ev.op = "stopScroll" =>
            /\ cancelCalls' = {}
            /\ UNCHANGED <<moving, scrolling, currentX, currentY, x, y,
                           animationFrameId, dot, disposed, listener, frames,
                           nextFrameId, stale, bodyClass, bodyDirection,
                           scrollTop, scrollLeft>>]_vars

\* stopScroll has been called twice in a row, the first call having
\* cancelled the frame of a running session.
C10_Witness ==
    /\ ev.op = "stopScroll"
    /\ ev.repeated
    /\ stale
    /\ cancelCalls = {}
    /\ dot # Null
    /\ Stopped

\* C11: once dispose() has run, from either state, the controller is Idle,
\* no frame callback is pending, the move listener is removed, the dot is
\* removed (null), and the body's scrolling class and direction attribute
\* are cleared.
C11_DisposeTearsDown ==
    disposed =>
        /\ ~scrolling
        /\ ~moving
        /\ frames = {}
        /\ animationFrameId = Null
        /\ ~listener
        /\ dot = Null
        /\ ~bodyClass
        /\ bodyDirection = Null

\* The controller was disposed in the middle of a session that had moved:
\* dispose() cancelled its frame.
C11_Witness ==
    /\ disposed
    /\ ev.op = "dispose"
    /\ cancelCalls # {}
    /\ scrollTop # ScrollStart

\* C12: a pointer-down of another button received while Idle changes
\* nothing but the dot, which it creates, hidden, if there is none: the
\* controller stays Idle, no frame is requested, no listener is registered,
\* and the anchor, the current position, moving and the scroll offsets
\* stay as they were.
C12_OtherButtonWhileIdleIgnored ==
    [][(ev'.op = "windowMouseDown" /\ ~ev'.middleButton /\ ~scrolling) =>
        /\ ~scrolling'
        /\ ~propagationStopped'
        /\ cancelCalls' = {}
        /\ dot' = IF dot = Null
                  THEN Some([hidden |-> TRUE, left |-> Null, top |-> Null])
                  ELSE dot
        /\ UNCHANGED <<moving, currentX, currentY, x, y, animationFrameId,
                       listener, frames, nextFrameId, bodyClass,
                       bodyDirection, scrollTop, scrollLeft>>]_vars

\* The first event the controller receives is a down of another button: the
\* dot exists, hidden, and nothing else has happened.
C12_Witness ==
    /\ ev.op = "windowMouseDown"
    /\ ~ev.middleButton
    /\ ~scrolling
    /\ dot = Some([hidden |-> TRUE, left |-> Null, top |-> Null])
    /\ x = Null
    /\ frames = {}
    /\ nextFrameId = 1
    /\ ~listener

\* C13: at most one frame callback is pending at any time, and it is the
\* one animationFrameId names; a startScroll while a session is on cancels
\* that session's pending frame, so that only the new session's frame is
\* pending afterwards, with the listener registered once.
C13_OneFrameChain ==
    /\ [](Cardinality(frames) <= 1)
    /\ [](frames # {} => frames = {Val(animationFrameId)})
    /\ [][(ev'.op = "startScroll" /\ scrolling) =>
            /\ cancelCalls' = {Val(animationFrameId)}
            /\ animationFrameId' # animationFrameId
            /\ frames' = {Val(animationFrameId')}
            /\ scrolling'
            /\ ~moving'
            /\ listener']_vars

\* startScroll has just been called in a session that had moved: the old
\* frame was cancelled and one frame is pending.
C13_Witness ==
    /\ ev.op = "startScroll"
    /\ cancelCalls # {}
    /\ scrolling
    /\ Cardinality(frames) = 1
    /\ scrollTop # ScrollStart

\* C14: while the controller stays Idle, no frame tick and no pointer-move
\* reaches it, the scroll offsets and the body's class and direction stay
\* as they are, the dot stays hidden (it is only created, hidden, or
\* removed by dispose), and a pointer-up changes nothing at all.
C14_IdleChangesNothing ==
    [][(~scrolling /\ ~scrolling') =>
        /\ ev'.op \notin {"setCurrent", "scrollPane"}
        /\ UNCHANGED <<scrollTop, scrollLeft, bodyClass, bodyDirection>>
        /\ \/ dot' = dot
           \/ dot = Null /\ dot' = Some([hidden |-> TRUE, left |-> Null, top |-> Null])
           \/ ev'.op = "dispose" /\ dot' = Null
        /\ ev'.op = "windowMouseUp" =>
              UNCHANGED <<moving, scrolling, currentX, currentY, x, y,
                          animationFrameId, dot, disposed, listener, frames,
                          nextFrameId, stale, bodyClass, bodyDirection,
                          scrollTop, scrollLeft>>]_vars

\* A pointer-up has arrived while Idle, after a pointer-up that stopped a
\* session that had scrolled.
C14_Witness ==
    /\ ev.op = "windowMouseUp"
    /\ ev.repeated
    /\ ~scrolling
    /\ stale
    /\ cancelCalls = {}
    /\ PositionsSet
    /\ diffTop > threshold
    /\ scrollTop = ScrollStart + 1
    /\ ~disposed

\* C15: a frame tick sets each scroll offset to the value the editor holds
\* when the tick starts plus the tick's movement, whatever the offsets were
\* at earlier ticks and whoever set them since.
C15_TickAddsToCurrentOffsets ==
    [][(ev'.op = "scrollPane" /\ PositionsSet) =>
        /\ scrollTop' = scrollTop + Move(diffTop)
        /\ scrollLeft' = scrollLeft + Move(diffLeft)]_vars

\* Two ticks have run in a session, something else in between, and the
\* offsets are those another actor set plus one tick's movement.
C15_Witness ==
    /\ ev.op = "scrollPane"
    /\ ~ev.repeated
    /\ PositionsSet
    /\ diffTop = threshold + 1
    /\ diffLeft = 0
    /\ scrollTop = ExternalOffset + 1
    /\ scrollLeft = ExternalOffset
    /\ moving
    /\ nextFrameId = 4

\* C16: every frame tick of a session requests exactly one next frame,
\* whatever direction it computed, so a frame is pending whenever the
\* controller is Scrolling; and, the window running every frame that stays
\* pending, a session is always followed by a further tick or by its stop
\* (as long as the window has a handle left to hand out).
C16_TickAlwaysReschedules ==
    /\ [][ev'.op = "scrollPane" =>
            /\ animationFrameId' = Some(nextFrameId)
            /\ nextFrameId' = nextFrameId + 1
            /\ frames' = {nextFrameId}
            /\ scrolling']_vars
    /\ [](scrolling => frames # {})
    /\ \A n \in 1 .. MaxFrames :
            (scrolling /\ nextFrameId = n) ~> (~scrolling \/ nextFrameId > n)

\* Two ticks in a row have computed the empty direction in a session that
\* has not moved, and a frame is pending again.
C16_Witness ==
    /\ ev.op = "scrollPane"
    /\ ev.repeated
    /\ scrolling
    /\ ~moving
    /\ bodyDirection = Some("")
    /\ frames = {Val(animationFrameId)}
    /\ nextFrameId = 4

\* C17: a mousemove only overwrites current with the event's coordinates:
\* scroll offsets, anchor, moving, scrolling, the frame handle and the
\* pending frames, the listener, the dot and the body are as before; the
\* frame tick that follows scrolls by the movement of that latest current.
C17_MoveOnlySetsCurrent ==
    /\ [][ev'.op = "setCurrent" =>
            /\ \E e \in MoveEvents :
                    currentX' = Some(e.pageX) /\ currentY' = Some(e.pageY)
            /\ UNCHANGED <<scrollTop, scrollLeft, x, y, moving, scrolling,
                           animationFrameId, frames, nextFrameId, stale,
                           listener, dot, bodyClass, bodyDirection, disposed>>
            /\ cancelCalls' = {}
            /\ ~propagationStopped']_vars
    /\ [][(ev.op = "setCurrent" /\ ev'.op = "scrollPane" /\ PositionsSet) =>
            /\ scrollTop' = scrollTop + Move(diffTop)
            /\ scrollLeft' = scrollLeft + Move(diffLeft)
            /\ UNCHANGED <<currentX, currentY>>]_vars

\* The pointer has just moved beyond the threshold below the anchor in a
\* session whose ticks have scrolled nothing so far, and no scroll step has
\* happened yet.
C17_Witness ==
    /\ ev.op = "setCurrent"
    /\ scrolling
    /\ ~moving
    /\ PositionsSet
    /\ diffTop > threshold
    /\ scrollTop = ScrollStart
    /\ bodyDirection = Some("")
    /\ frames = {Val(animationFrameId)}

\* C18: the anchor (x, y) is written only by the middle-button mousedown
\* that starts a session, which sets it to the event's position; no
\* mousemove, frame tick, mouseup, stop or disposal changes it.
C18_AnchorWrittenOnlyByStart ==
    /\ [][(x' # x \/ y' # y) =>
            /\ ev'.op = "windowMouseDown"
            /\ ev'.middleButton
            /\ ~scrolling
            /\ scrolling']_vars
    /\ [][ev'.op \in {"setCurrent", "scrollPane", "windowMouseUp", "dispose"} =>
            UNCHANGED <<x, y>>]_vars
    /\ [][\A e \in MouseEvents :
            (DeliversDown(e) /\ e.middleButton /\ ~scrolling) =>
                x' = Some(e.posx) /\ y' = Some(e.posy)]_vars

\* A session started off the origin, the pointer has moved back to the
\* origin, two ticks in a row have scrolled, and the anchor is where the
\* session started.
C18_Witness ==
    /\ ev.op = "scrollPane"
    /\ ev.repeated
    /\ scrolling
    /\ moving
    /\ x = Some(threshold + 1)
    /\ y = Some(threshold + 2)
    /\ currentX = Some(0)
    /\ currentY = Some(0)

\* C19: in every reachable state the dot, once created, is shown exactly
\* when the controller is scrolling, the body carries the scrolling class
\* exactly when the controller is scrolling, and the body carries a
\* data-scroll-direction attribute only while the controller is scrolling.
C19_CosmeticsTrackScrolling ==
    /\ dot # Null => (~Val(dot).hidden <=> scrolling)
    /\ bodyClass <=> scrolling
    /\ bodyDirection # Null => scrolling

\* A session has been stopped by a mouseup after it scrolled: the dot is
\* there and hidden again, the class and the direction are off the body.
C19_Witness ==
    /\ ev.op = "windowMouseUp"
    /\ ~scrolling
    /\ scrollTop > ScrollStart
    /\ dot # Null
    /\ Val(dot).hidden
    /\ Val(dot).top = Some(0)
    /\ ~bodyClass
    /\ bodyDirection = Null

\* C20: moving implies scrolling in every reachable state; a frame tick
\* sets moving exactly when it computes a non-empty direction and otherwise
\* leaves it as it is, so moving becomes true only at such a tick and,
\* once true, becomes false only at a step that stops the session.
C20_MovingMonotoneInSession ==
    /\ [](moving => scrolling)
    /\ [][(ev'.op = "scrollPane" /\ PositionsSet) =>
            moving' = (moving \/ Direction(Move(diffTop), Move(diffLeft)) # "")]_vars
    /\ [][(~moving /\ moving') =>
            /\ ev'.op = "scrollPane"
            /\ bodyDirection' \notin {Null, Some("")}]_vars
    /\ [][(moving /\ ~moving') =>
            /\ ev'.op \in {"windowMouseDown", "windowMouseUp", "dispose"}
            /\ ~scrolling']_vars

\* The session has scrolled, the pointer is back inside the deadzone, a
\* tick has computed the empty direction, and moving is still set.
C20_Witness ==
    /\ ev.op = "scrollPane"
    /\ scrolling
    /\ moving
    /\ bodyDirection = Some("")
    /\ PositionsSet
    /\ diffTop = 0
    /\ diffLeft = 0
    /\ scrollTop > ScrollStart

====
